---- MODULE Spec2Model ----
(***************************************************************************)
(* FitTrack: the plan generator generate_fitness_plan_from_profile          *)
(* (core/ai_planner.py) and the ai_planner request handler (core/views.py). *)
(* Each caller thread runs one call, statement by statement; the provider   *)
(* library (genai) is a test double whose calls are recorded in `calls`.    *)
(***************************************************************************)
EXTENDS Integers, Sequences, FiniteSets, TLC

VARIABLES
    pc,             \* pc[c]: the statement caller c executes next
    frame,          \* frame[c]: the local variables of c's generator call
    ret,            \* ret[c]: how c's generator call ended (returned / raised)
    request,        \* request[c]: c's entry point and the view's locals
    calls,          \* calls[c]: the collaborator calls c made, in order
    genai_api_key   \* the provider library's process-wide configuration

vars == <<pc, frame, ret, request, calls, genai_api_key>>

Callers == {"A", "B"}

\* ---------------------------------------------------------------- bounds
MaxNum == 1
MaxWords == 2

\* ------------------------------------------------------- Python values
PyNone == <<"NoneType">>
PyInt(n) == <<"int", n>>
PyStr(s) == <<"str", s>>
Unbound == <<"unbound">>
Omitted == <<"omitted">>

Truthy(v) ==
    CASE v[1] = "int" -> v[2] # 0
      [] v[1] = "str" -> v[2] # ""
      [] OTHER -> FALSE

Digits == <<"0", "1", "2", "3", "4", "5", "6", "7", "8", "9">>

RECURSIVE DecimalStr(_)
DecimalStr(n) ==
    IF n < 10 THEN Digits[n + 1]
    ELSE DecimalStr(n \div 10) \o Digits[(n % 10) + 1]

Format(v) ==
    CASE v[1] = "int" -> DecimalStr(v[2])
      [] v[1] = "str" -> v[2]
      [] OTHER -> "None"

RECURSIVE FindFrom(_, _, _)
FindFrom(sub, s, i) ==
    IF i + Len(sub) - 1 > Len(s) THEN FALSE
    ELSE IF SubSeq(s, i, i + Len(sub) - 1) = sub THEN TRUE
    ELSE FindFrom(sub, s, i + 1)

StrIn(sub, s) == FindFrom(sub, s, 1)

\* ----------------------------------------------------------- exceptions
Bases(type) ==
    CASE type = "ValueError" -> {"ValueError", "Exception"}
      [] type = "UnicodeDecodeError" -> {"UnicodeDecodeError", "ValueError", "Exception"}
      [] type = "ConnectionError" -> {"ConnectionError", "OSError", "Exception"}
      [] OTHER -> {type, "Exception"}

IsInstance(e, cls) == cls \in Bases(e.type)

NoExc == [type |-> "", msg |-> ""]

MISSING_KEY_MESSAGE ==
    "GEMINI_API_KEY not found in .env file. Please set your Gemini API key."

\* ------------------------------------------------------- fixed strings
PRIMARY_MODEL == "gemini-2.5-flash"
SECONDARY_MODEL == "gemini-1.5-flash"

DEFAULT_GENDER == PyStr("Not specified")
DEFAULT_AGE == PyInt(25)
DEFAULT_HEIGHT == PyInt(170)
DEFAULT_WEIGHT == PyInt(70)
DEFAULT_FITNESS_LEVEL == PyStr("Beginner")
DEFAULT_GOAL_CHOICE == PyStr("General Fitness")

GOAL_MUSCLE ==
    "Build lean muscle mass with a focus on hypertrophy, aiming to gain 1-2 kg of muscle."
GOAL_FAT ==
    "Lose body fat while preserving as much muscle as possible, aiming to lose 2-3 kg of fat."
GOAL_GENERIC ==
    "Improve overall fitness and health."

CONFIG_REMEDIATION ==
    "\n\nPlease check:\n1. Create a .env file in the project root\n2. Add: GEMINI_API_KEY=your_api_key_here\n3. Get your API key from: https://makersuite.google.com/app/apikey"
GENERATION_REMEDIATION ==
    "\n\nPlease check:\n1. Your internet connection\n2. Your Gemini API key is valid\n3. You have API quota remaining"

PROFILE_INCOMPLETE ==
    "Please complete your profile first (Gender, Age, Height, Weight) before generating a plan. Go to Profile > Edit Profile to update your information."

TEMPLATE_0 ==
    "\nYou are an expert AI personal trainer and nutritionist named FitTrack AI. Your task is to create a comprehensive, personalized, and actionable 4-week training and diet plan based on the user's detailed profile and recent activity. The plan should be scientific, safe, and tailored to help the user achieve their goals.\n\n### User Profile\n* **Gender:** "

TEMPLATE_1 ==
    "\n* **Age:** "

TEMPLATE_2 ==
    "\n* **Height:** "

TEMPLATE_3 ==
    " cm\n* **Weight:** "

TEMPLATE_4 ==
    " kg\n* **Fitness Level:** "

TEMPLATE_5 ==
    "\n* **Primary Goal:** "

TEMPLATE_6 ==
    "\n\n### Recent Training History (Summary of the last month)\n"

TEMPLATE_7 ==
    "\n\n### Your Task: Generate the 4-Week Plan\n\nBased on all the information provided, generate a detailed 4-week plan.\n\n**1. The 4-Week Training Plan:**\n* **Structure:** Create a weekly split that balances intensity and recovery, for example, a Push/Pull/Legs or an Upper/Lower split.\n* **Progressive Overload:** The plan must incorporate the principle of progressive overload. Show how the user can increase weight, reps, or intensity from Week 1 to Week 4.\n* **Clarity:** For each training day, provide specific exercises (e.g., Bench Press, Barbell Squats, Lat Pulldowns), including the number of sets and repetitions (e.g., 3 sets of 8-12 reps).\n* **Cardio:** Integrate 1-2 cardio sessions per week, specifying the type (e.g., LISS - Low-Intensity Steady State, or HIIT) and duration.\n* **Rest:** Explicitly schedule at least two rest days per week.\n* **Format:** Present the weekly schedule in a clear, easy-to-read table format for each of the 4 weeks.\n\n**2. The 4-Week Diet Plan:**\n* **Caloric & Macro Targets:** First, calculate and state the recommended daily calorie intake and macronutrient split (Protein, Carbs, Fat in grams) for the user's goal.\n* **Nutritional Principles:** Provide 3-5 key nutritional guidelines for the user to follow (e.g., prioritize protein, choose complex carbs, stay hydrated).\n* **Sample Meal Ideas:** Do not create a rigid daily meal plan. Instead, provide a list of healthy and easy-to-prepare sample meal ideas for Breakfast, Lunch, Dinner, and Snacks. This gives the user flexibility.\n* **Integration:** The diet plan should directly support the energy demands of the training plan.\n\nPlease generate the complete, detailed plan now.\n"

DEFAULT_HISTORY ==
    "\n* **Workout Frequency:** Based on your fitness level, we recommend starting with 3-4 times per week.\n* **Workout Types:** A balanced mix of strength training and cardio.\n"

\* ------------------------------------------------------ prompt assembly
PromptText(gender, age, height, weight, level, goal, history) ==
    TEMPLATE_0 \o Format(gender) \o TEMPLATE_1 \o Format(age)
    \o TEMPLATE_2 \o Format(height) \o TEMPLATE_3 \o Format(weight)
    \o TEMPLATE_4 \o Format(level) \o TEMPLATE_5 \o Format(goal)
    \o TEMPLATE_6 \o Format(history) \o TEMPLATE_7

\* Mutant: the fat-loss test comes first.
DetailedGoal_FatFirst(choice) ==
    IF StrIn("Fat", choice) \/ StrIn("Loss", choice) THEN GOAL_FAT
    ELSE IF StrIn("Muscle", choice) \/ StrIn("Gain", choice) THEN GOAL_MUSCLE
    ELSE GOAL_GENERIC

DetailedGoal(choice) ==
    IF StrIn("Muscle", choice) \/ StrIn("Gain", choice) THEN GOAL_MUSCLE
    ELSE IF StrIn("Fat", choice) \/ StrIn("Loss", choice) THEN GOAL_FAT
    ELSE GOAL_GENERIC

ConfigErrorText(e) == "Configuration Error: " \o e.msg \o CONFIG_REMEDIATION

GenerationErrorText(e) ==
    "Error generating plan (" \o e.type \o "): " \o e.msg \o GENERATION_REMEDIATION

ViewErrorText(e) == "An error occurred while generating the plan: " \o e.msg

\* ------------------------------------------------- the profile object
Profile(g, a, h, w, l, p) ==
    [gender |-> g[1], gender_display |-> g[2],
     age |-> a, height_cm |-> h, weight_kg |-> w,
     fitness_level |-> l[1], fitness_level_display |-> l[2],
     primary_goal_choice |-> p[1], primary_goal_choice_display |-> p[2]]

get_gender_display(p) == p.gender_display
get_fitness_level_display(p) == p.fitness_level_display
get_primary_goal_choice_display(p) == p.primary_goal_choice_display

\* A field the user never set (None), one saved blank (""), one chosen.
UnsetChoice == <<PyNone, PyNone>>
BlankChoice == <<PyStr(""), PyStr("")>>
Choice(code, label) == <<PyStr(code), PyStr(label)>>

\* ---------------------------------------------------------- the state
EmptyFrame ==
    [user_profile |-> Unbound, training_history_summary |-> Unbound,
     api_key |-> Unbound, user_gender |-> Unbound, user_age |-> Unbound,
     user_height |-> Unbound, user_weight |-> Unbound,
     user_fitness_level |-> Unbound, user_primary_goal_choice |-> Unbound,
     detailed_goal |-> Unbound, prompt |-> Unbound, model |-> Unbound,
     response |-> Unbound, result_text |-> Unbound, exc |-> NoExc]

NoRet == [kind |-> "none", value |-> Unbound, exc |-> NoExc]
Returned(text) == [kind |-> "return", value |-> PyStr(text), exc |-> NoExc]
Raised(e) == [kind |-> "raise", value |-> Unbound, exc |-> e]

NoContext == [result |-> Unbound, error |-> Unbound]

NoRequest ==
    [entry |-> "none", method |-> "", profile |-> Unbound, history |-> Unbound,
     result_text |-> Unbound, error_text |-> Unbound, context |-> NoContext]

Event(op, target, arg, cred, ok) ==
    [op |-> op, target |-> target, arg |-> arg, cred |-> cred, ok |-> ok]

Init ==
    /\ pc = [c \in Callers |-> "idle"]
    /\ frame = [c \in Callers |-> EmptyFrame]
    /\ ret = [c \in Callers |-> NoRet]
    /\ request = [c \in Callers |-> NoRequest]
    /\ calls = [c \in Callers |-> <<>>]
    /\ genai_api_key = PyNone

\* ------------------------------------------------------------ helpers
Goto(c, label) == pc' = [pc EXCEPT ![c] = label]
Log(c, ev) == calls' = [calls EXCEPT ![c] = Append(@, ev)]
Assign(c, name, value) == frame' = [frame EXCEPT ![c][name] = value]

\* An exception raised inside the outer try: control goes to its handlers.
Raise(c, e) ==
    /\ frame' = [frame EXCEPT ![c].exc = e]
    /\ pc' = [pc EXCEPT ![c] = "except"]

\* Where control goes when the generator call of c ends.
AfterCall(c) == IF request[c].entry = "view" THEN "view_return" ELSE "done"

NewFrame(profile, history) ==
    [EmptyFrame EXCEPT !.user_profile = profile,
                       !.training_history_summary =
                           IF history = Omitted THEN PyStr("") ELSE history]

CallEvent == Event("call", "generate_fitness_plan_from_profile", PyNone, PyNone, TRUE)

\* ------------------------------- generate_fitness_plan_from_profile
\* A direct call generate_fitness_plan_from_profile(profile[, history]).
Call(c, W) ==
    /\ pc[c] = "idle"
    /\ \E a \in W.args :
        /\ frame' = [frame EXCEPT ![c] = NewFrame(a[1], a[2])]
        /\ request' = [request EXCEPT ![c] =
               [NoRequest EXCEPT !.entry = "direct", !.profile = a[1], !.history = a[2]]]
    /\ Log(c, CallEvent)
    /\ Goto(c, "getenv")
    /\ UNCHANGED <<ret, genai_api_key>>

\* Mutant: only a missing key is rejected ("if api_key is None").
GetEnv_NoneOnly(c, W) ==
    /\ pc[c] = "getenv"
    /\ \E k \in W.keys :
        IF k = PyNone
        THEN /\ frame' = [frame EXCEPT ![c].api_key = k,
                                       ![c].exc = [type |-> "ValueError",
                                                   msg |-> MISSING_KEY_MESSAGE]]
             /\ Goto(c, "except")
        ELSE /\ Assign(c, "api_key", k)
             /\ Goto(c, "configure")
    /\ UNCHANGED <<ret, request, calls, genai_api_key>>

GetEnv(c, W) ==
    /\ pc[c] = "getenv"
    /\ \E k \in W.keys :
        IF ~Truthy(k)
        THEN /\ frame' = [frame EXCEPT ![c].api_key = k,
                                       ![c].exc = [type |-> "ValueError",
                                                   msg |-> MISSING_KEY_MESSAGE]]
             /\ Goto(c, "except")
        ELSE /\ Assign(c, "api_key", k)
             /\ Goto(c, "configure")
    /\ UNCHANGED <<ret, request, calls, genai_api_key>>

Configure(c, W) ==
    /\ pc[c] = "configure"
    /\ \/ /\ genai_api_key' = frame[c].api_key
          /\ Log(c, Event("configure", "genai", frame[c].api_key, frame[c].api_key, TRUE))
          /\ Goto(c, "gender")
          /\ UNCHANGED frame
       \/ \E e \in W.failures :
          /\ Log(c, Event("configure", "genai", frame[c].api_key, genai_api_key, FALSE))
          /\ Raise(c, e)
          /\ UNCHANGED genai_api_key
    /\ UNCHANGED <<ret, request>>

\* One of the six extraction statements: read the attribute, and either keep
\* `value` in the local `name` or fail inside the accessor.
Extract(c, W, here, attr, name, value, next) ==
    /\ pc[c] = here
    /\ \/ /\ Assign(c, name, value)
          /\ Log(c, Event("getattr", attr, PyNone, PyNone, TRUE))
          /\ Goto(c, next)
       \/ \E e \in W.failures :
          /\ Log(c, Event("getattr", attr, PyNone, PyNone, FALSE))
          /\ Raise(c, e)
    /\ UNCHANGED <<ret, request, genai_api_key>>

GenderValue(p) == IF Truthy(p.gender) THEN get_gender_display(p) ELSE DEFAULT_GENDER
AgeValue(p) == IF Truthy(p.age) THEN p.age ELSE DEFAULT_AGE
HeightValue(p) == IF Truthy(p.height_cm) THEN p.height_cm ELSE DEFAULT_HEIGHT
WeightValue(p) == IF Truthy(p.weight_kg) THEN p.weight_kg ELSE DEFAULT_WEIGHT
FitnessLevelValue(p) ==
    IF Truthy(p.fitness_level) THEN get_fitness_level_display(p) ELSE DEFAULT_FITNESS_LEVEL
GoalChoiceValue(p) ==
    IF Truthy(p.primary_goal_choice) THEN get_primary_goal_choice_display(p)
    ELSE DEFAULT_GOAL_CHOICE

ExtractGender(c, W) ==
    Extract(c, W, "gender", "gender", "user_gender",
            GenderValue(frame[c].user_profile), "age")
ExtractAge(c, W) ==
    Extract(c, W, "age", "age", "user_age",
            AgeValue(frame[c].user_profile), "height")
ExtractHeight(c, W) ==
    Extract(c, W, "height", "height_cm", "user_height",
            HeightValue(frame[c].user_profile), "weight")
ExtractWeight(c, W) ==
    Extract(c, W, "weight", "weight_kg", "user_weight",
            WeightValue(frame[c].user_profile), "fitness_level")
ExtractFitnessLevel(c, W) ==
    Extract(c, W, "fitness_level", "fitness_level", "user_fitness_level",
            FitnessLevelValue(frame[c].user_profile), "goal_choice")
ExtractGoalChoice(c, W) ==
    Extract(c, W, "goal_choice", "primary_goal_choice", "user_primary_goal_choice",
            GoalChoiceValue(frame[c].user_profile), "map_goal")

MapGoal(c) ==
    /\ pc[c] = "map_goal"
    /\ Assign(c, "detailed_goal",
              PyStr(DetailedGoal(Format(frame[c].user_primary_goal_choice))))
    /\ Goto(c, "history")
    /\ UNCHANGED <<ret, request, calls, genai_api_key>>

\* Mutant: a history of blanks counts as empty ("if not summary.strip()").
HistoryValue_Stripped(h) ==
    IF ~Truthy(h) \/ (\A i \in 1..Len(Format(h)) : SubSeq(Format(h), i, i) = " ")
    THEN PyStr(DEFAULT_HISTORY) ELSE h

HistoryValue(h) == IF ~Truthy(h) THEN PyStr(DEFAULT_HISTORY) ELSE h

DefaultHistory(c) ==
    /\ pc[c] = "history"
    /\ Assign(c, "training_history_summary",
              HistoryValue(frame[c].training_history_summary))
    /\ Goto(c, "prompt")
    /\ UNCHANGED <<ret, request, calls, genai_api_key>>

BuildPrompt(c) ==
    /\ pc[c] = "prompt"
    /\ Assign(c, "prompt",
              PyStr(PromptText(frame[c].user_gender, frame[c].user_age,
                               frame[c].user_height, frame[c].user_weight,
                               frame[c].user_fitness_level, frame[c].detailed_goal,
                               frame[c].training_history_summary)))
    /\ Goto(c, "model_primary")
    /\ UNCHANGED <<ret, request, calls, genai_api_key>>

\* try: model = genai.GenerativeModel('gemini-2.5-flash'); a failure of the
\* constructor is swallowed by the inner handler, which builds the fallback.
ConstructPrimary(c, W) ==
    /\ pc[c] = "model_primary"
    /\ \/ /\ Assign(c, "model", PyStr(PRIMARY_MODEL))
          /\ Log(c, Event("GenerativeModel", PRIMARY_MODEL, PyNone, genai_api_key, TRUE))
          /\ Goto(c, "generate")
       \/ \E e \in W.failures :
          /\ Log(c, Event("GenerativeModel", PRIMARY_MODEL, PyNone, genai_api_key, FALSE))
          /\ Goto(c, "model_secondary")
          /\ UNCHANGED frame
    /\ UNCHANGED <<ret, request, genai_api_key>>

ConstructSecondary(c, W) ==
    /\ pc[c] = "model_secondary"
    /\ \/ /\ Assign(c, "model", PyStr(SECONDARY_MODEL))
          /\ Log(c, Event("GenerativeModel", SECONDARY_MODEL, PyNone, genai_api_key, TRUE))
          /\ Goto(c, "generate")
       \/ \E e \in W.failures :
          /\ Log(c, Event("GenerativeModel", SECONDARY_MODEL, PyNone, genai_api_key, FALSE))
          /\ Raise(c, e)
    /\ UNCHANGED <<ret, request, genai_api_key>>

\* Mutant: a failed generation falls back to the secondary model and retries.
GenerateContent_Fallback(c, W) ==
    /\ pc[c] = "generate"
    /\ \/ /\ Assign(c, "response", PyStr("response"))
          /\ Log(c, Event("generate_content", Format(frame[c].model),
                          frame[c].prompt, genai_api_key, TRUE))
          /\ Goto(c, "text")
       \/ \E e \in W.failures :
          /\ Log(c, Event("generate_content", Format(frame[c].model),
                          frame[c].prompt, genai_api_key, FALSE))
          /\ IF frame[c].model = PyStr(PRIMARY_MODEL)
             THEN Goto(c, "model_secondary") /\ UNCHANGED frame
             ELSE Raise(c, e)
    /\ UNCHANGED <<ret, request, genai_api_key>>

\* response = model.generate_content(prompt): the provider authenticates the
\* request with the process-wide configuration as it is at this moment.
GenerateContent(c, W) ==
    /\ pc[c] = "generate"
    /\ \/ /\ Assign(c, "response", PyStr("response"))
          /\ Log(c, Event("generate_content", Format(frame[c].model),
                          frame[c].prompt, genai_api_key, TRUE))
          /\ Goto(c, "text")
       \/ \E e \in W.failures :
          /\ Log(c, Event("generate_content", Format(frame[c].model),
                          frame[c].prompt, genai_api_key, FALSE))
          /\ Raise(c, e)
    /\ UNCHANGED <<ret, request, genai_api_key>>

ReadText(c, W) ==
    /\ pc[c] = "text"
    /\ \/ \E t \in W.texts :
          /\ Assign(c, "result_text", PyStr(t))
          /\ Log(c, Event("text", "response", PyStr(t), PyNone, TRUE))
          /\ Goto(c, "return")
       \/ \E e \in W.failures :
          /\ Log(c, Event("text", "response", PyNone, PyNone, FALSE))
          /\ Raise(c, e)
    /\ UNCHANGED <<ret, request, genai_api_key>>

Return(c) ==
    /\ pc[c] = "return"
    /\ ret' = [ret EXCEPT ![c] = Returned(Format(frame[c].result_text))]
    /\ Goto(c, AfterCall(c))
    /\ UNCHANGED <<frame, request, calls, genai_api_key>>

\* Mutant: the catch-all handler is missing.
Handle_ValueErrorOnly(e) ==
    IF IsInstance(e, "ValueError") THEN Returned(ConfigErrorText(e))
    ELSE Raised(e)

\* except ValueError as ve: ... / except Exception as e: ...
Handle(e) ==
    IF IsInstance(e, "ValueError") THEN Returned(ConfigErrorText(e))
    ELSE IF IsInstance(e, "Exception") THEN Returned(GenerationErrorText(e))
    ELSE Raised(e)

Except(c) ==
    /\ pc[c] = "except"
    /\ ret' = [ret EXCEPT ![c] = Handle(frame[c].exc)]
    /\ Goto(c, AfterCall(c))
    /\ UNCHANGED <<frame, request, calls, genai_api_key>>

\* ------------------------------------------------ the ai_planner view
Incomplete(p) ==
    \/ ~Truthy(p.gender) \/ ~Truthy(p.age)
    \/ ~Truthy(p.height_cm) \/ ~Truthy(p.weight_kg)

\* profile = get_or_create(...); result_text = error_text = None; the
\* completeness gate and its early render.
ViewEntry(c, W) ==
    /\ pc[c] = "idle"
    /\ \E r \in W.requests :
        LET fresh == [NoRequest EXCEPT !.entry = "view", !.method = r[1],
                                       !.profile = r[2], !.history = Omitted,
                                       !.result_text = PyNone, !.error_text = PyNone]
        IN  IF Incomplete(r[2])
            THEN /\ request' = [request EXCEPT ![c] =
                        [fresh EXCEPT !.error_text = PyStr(PROFILE_INCOMPLETE),
                                      !.context = [result |-> PyNone,
                                                   error |-> PyStr(PROFILE_INCOMPLETE)]]]
                 /\ Goto(c, "done")
            ELSE /\ request' = [request EXCEPT ![c] = fresh]
                 /\ Goto(c, "view_dispatch")
    /\ UNCHANGED <<frame, ret, calls, genai_api_key>>

\* Mutant: the view calls the generator whatever the request method is.
ViewDispatch_AnyMethod(c) ==
    /\ pc[c] = "view_dispatch"
    /\ frame' = [frame EXCEPT ![c] = NewFrame(request[c].profile, Omitted)]
    /\ Log(c, CallEvent)
    /\ Goto(c, "getenv")
    /\ UNCHANGED <<ret, request, genai_api_key>>

\* if request.method == 'POST': result_text = generate_fitness_plan_from_profile(profile)
ViewDispatch(c) ==
    /\ pc[c] = "view_dispatch"
    /\ IF request[c].method = "POST"
       THEN /\ frame' = [frame EXCEPT ![c] = NewFrame(request[c].profile, Omitted)]
            /\ Log(c, CallEvent)
            /\ Goto(c, "getenv")
       ELSE /\ Goto(c, "view_render")
            /\ UNCHANGED <<frame, calls>>
    /\ UNCHANGED <<ret, request, genai_api_key>>

\* The call's outcome inside the view's try/except.
ViewReturn(c) ==
    /\ pc[c] = "view_return"
    /\ request' = [request EXCEPT ![c] =
           IF ret[c].kind = "return"
           THEN [@ EXCEPT !.result_text = ret[c].value]
           ELSE [@ EXCEPT !.error_text = PyStr(ViewErrorText(ret[c].exc))]]
    /\ Goto(c, "view_render")
    /\ UNCHANGED <<frame, ret, calls, genai_api_key>>

ViewRender(c) ==
    /\ pc[c] = "view_render"
    /\ request' = [request EXCEPT ![c].context =
           [result |-> request[c].result_text, error |-> request[c].error_text]]
    /\ Goto(c, "done")
    /\ UNCHANGED <<frame, ret, calls, genai_api_key>>

\* --------------------------------------------------------- the inputs
Step(c, W) ==
    \/ Call(c, W) \/ GetEnv(c, W) \/ Configure(c, W)
    \/ ExtractGender(c, W) \/ ExtractAge(c, W) \/ ExtractHeight(c, W)
    \/ ExtractWeight(c, W) \/ ExtractFitnessLevel(c, W) \/ ExtractGoalChoice(c, W)
    \/ MapGoal(c) \/ DefaultHistory(c) \/ BuildPrompt(c)
    \/ ConstructPrimary(c, W) \/ ConstructSecondary(c, W)
    \/ GenerateContent(c, W) \/ ReadText(c, W) \/ Return(c) \/ Except(c)
    \/ ViewEntry(c, W) \/ ViewDispatch(c) \/ ViewReturn(c) \/ ViewRender(c)

EnvKeys == {PyNone, PyStr(""), PyStr("key-1"), PyStr("key-2")}

Failures ==
    {[type |-> "ValueError", msg |-> "response blocked"],
     [type |-> "UnicodeDecodeError", msg |-> "invalid start byte"],
     [type |-> "ConnectionError", msg |-> "network unreachable"],
     [type |-> "ResourceExhausted", msg |-> "quota exceeded"]}

ProviderTexts == {"## Week 1: Upper/Lower split", ""}

Histories ==
    {Omitted, PyNone, PyStr(""), PyStr(" "), PyStr("Ran 5 km three times a week.")}

Methods == {"GET", "POST"}

BaseProfile ==
    Profile(Choice("M", "Male"), PyInt(30), PyInt(180), PyInt(80),
            Choice("intermediate", "Intermediate"), Choice("fat_loss", "Fat Loss"))
EmptyProfile ==
    Profile(UnsetChoice, PyNone, PyNone, PyNone, UnsetChoice, UnsetChoice)

NumValues(sample) == {PyNone, PyInt(sample)} \cup {PyInt(n) : n \in 0..MaxNum}

GoalWords ==
    {"Muscle", "Gain", "Fat", "Loss", "muscle", "gain", "fat", "loss",
     "Fatigue", "General", "Fitness"}

RECURSIVE Labels(_)
Labels(n) ==
    IF n <= 1 THEN GoalWords
    ELSE LET shorter == Labels(n - 1)
         IN  shorter \cup {l \o " " \o w : l \in shorter, w \in GoalWords}

ControlProfiles ==
    {BaseProfile, EmptyProfile,
     [BaseProfile EXCEPT !.age = PyInt(0)],
     [BaseProfile EXCEPT !.primary_goal_choice = PyStr("muscle_gain"),
                         !.primary_goal_choice_display = PyStr("Muscle Gain")]}

FieldProfiles ==
    {Profile(g, a, h, w, l, p) :
        g \in {UnsetChoice, BlankChoice, Choice("M", "Male")},
        a \in NumValues(30), h \in NumValues(180), w \in NumValues(80),
        l \in {UnsetChoice, BlankChoice, Choice("intermediate", "Intermediate")},
        p \in {UnsetChoice, BlankChoice, Choice("fat_loss", "Fat Loss")}}

GoalProfiles ==
    {[BaseProfile EXCEPT !.primary_goal_choice = PyStr("goal"),
                         !.primary_goal_choice_display = PyStr(l)] :
        l \in Labels(MaxWords)}

\* Every input of one call, for the control flow and the error handling.
Inputs ==
    [args |-> ControlProfiles \X Histories,
     requests |-> Methods \X ControlProfiles,
     keys |-> EnvKeys, failures |-> Failures, texts |-> ProviderTexts]

\* Profiles, goal labels and histories in breadth, one failure per step.
DataInputs ==
    [args |-> (FieldProfiles \X {PyStr("")}) \cup (GoalProfiles \X {Omitted})
              \cup ({BaseProfile, EmptyProfile} \X Histories),
     requests |-> Methods \X {BaseProfile, EmptyProfile},
     keys |-> {PyNone, PyStr("key-1")},
     failures |-> {[type |-> "ConnectionError", msg |-> "network unreachable"]},
     texts |-> {"## Week 1: Upper/Lower split"}]

\* Two callers at once, each reading the environment for itself.
ConcurrentInputs ==
    [args |-> {<<BaseProfile, Omitted>>},
     requests |-> Methods \X {BaseProfile},
     keys |-> {PyStr("key-1"), PyStr("key-2")},
     failures |-> {[type |-> "ConnectionError", msg |-> "network unreachable"]},
     texts |-> {"## Week 1: Upper/Lower split"}]

Next == Step("A", Inputs)
Spec == Init /\ [][Next]_vars

NextData == Step("A", DataInputs)
SpecData == Init /\ [][NextData]_vars

NextConcurrent == \E c \in Callers : Step(c, ConcurrentInputs)
SpecConcurrent == Init /\ [][NextConcurrent]_vars

\* ------------------------------------------------------- properties
StartsWith(s, prefix) ==
    Len(s) >= Len(prefix) /\ SubSeq(s, 1, Len(prefix)) = prefix

HasSub(s, w) ==
    \E i \in 1..Len(s) : i + Len(w) - 1 <= Len(s) /\ SubSeq(s, i, i + Len(w) - 1) = w

EventsOf(c, op) == SelectSeq(calls[c], LAMBDA ev : ev.op = op)
Happened(c, op) == Len(EventsOf(c, op)) > 0
Ended(c) == ret[c].kind # "none"
KeyPresent(c) == frame[c].api_key \notin {Unbound, PyNone, PyStr("")}
KeyMissing(c) == frame[c].api_key \in {PyNone, PyStr("")}

IsConfigurationError(v) == v[1] = "str" /\ StartsWith(v[2], "Configuration Error")

\* "Error generating plan (<category>): <message>" and the three bullets.
IsGenerationError(v, e) ==
    /\ v[1] = "str"
    /\ StartsWith(v[2], "Error generating plan (" \o e.type \o "): " \o e.msg)
    /\ HasSub(v[2], "1. Your internet connection")
    /\ HasSub(v[2], "2. Your Gemini API key is valid")
    /\ HasSub(v[2], "3. You have API quota remaining")

\* The failed collaborator call of c, if its last recorded call failed.
LastCall(c) == calls[c][Len(calls[c])]
FailedIn(c, ops) ==
    /\ Len(calls[c]) > 0
    /\ ~LastCall(c).ok
    /\ LastCall(c).op \in ops

\* C1: every call ends by returning a string - the provider's text, a
\* "Configuration Error: ..." text or an "Error generating plan (...)" text -
\* whatever step failed; no exception reaches the caller and no step is stuck.
C1_AlwaysReturnsString ==
    \A c \in Callers :
        /\ pc[c] \notin {"idle", "done"} => ENABLED Step(c, Inputs)
        /\ ret[c].kind # "raise"
        /\ pc[c] = "done" /\ Happened(c, "call") => ret[c].kind = "return"
        /\ ret[c].kind = "return" =>
            /\ ret[c].value[1] = "str"
            /\ \/ /\ Happened(c, "text")
                  /\ LastCall(c).ok
                  /\ ret[c].value = LastCall(c).arg
               \/ StartsWith(ret[c].value[2], "Configuration Error: ")
               \/ StartsWith(ret[c].value[2], "Error generating plan (")

\* C1 witness: a provider failure that is no ValueError was turned into a
\* returned string.
C1_Witness ==
    \E c \in Callers :
        /\ pc[c] = "done"
        /\ frame[c].exc.type = "ResourceExhausted"
        /\ FailedIn(c, {"text"})
        /\ ret[c].kind = "return"

\* C2: with GEMINI_API_KEY absent or empty the call returns the
\* "Configuration Error" text with its three remediation steps, and makes no
\* provider call and reads no profile field.
C2_MissingKey ==
    \A c \in Callers :
        KeyMissing(c) =>
            /\ \A i \in 1..Len(calls[c]) : calls[c][i].op = "call"
            /\ pc[c] \in {"except", "view_return", "view_render", "done"}
            /\ ret[c].kind # "raise"
            /\ pc[c] # "except" => ret[c].kind = "return"
            /\ ret[c].kind = "return" =>
                /\ IsConfigurationError(ret[c].value)
                /\ HasSub(ret[c].value[2], "1. Create a .env file in the project root")
                /\ HasSub(ret[c].value[2], "2. Add: GEMINI_API_KEY=your_api_key_here")
                /\ HasSub(ret[c].value[2],
                          "3. Get your API key from: https://makersuite.google.com/app/apikey")

\* C2 witness: a call that found an empty key has returned.
C2_Witness ==
    \E c \in Callers :
        /\ frame[c].api_key = PyStr("")
        /\ frame[c].user_profile = BaseProfile
        /\ ret[c].kind = "return"

\* C3: with the key present, a failure of model construction, of
\* generate_content or of reading response.text - of any category, ValueError
\* included - gives the generation-error text and never the
\* "Configuration Error" text.
C3_FailureGivesGenerationError ==
    \A c \in Callers :
        (/\ KeyPresent(c)
         /\ ret[c].kind = "return"
         /\ FailedIn(c, {"GenerativeModel", "generate_content", "text"})) =>
            /\ IsGenerationError(ret[c].value, frame[c].exc)
            /\ ~IsConfigurationError(ret[c].value)

\* The order of model selection alone (the first half of C4).
SelectionOrder(c) ==
    LET built == EventsOf(c, "GenerativeModel")
        sent == EventsOf(c, "generate_content")
    IN  /\ Len(built) <= 2
        /\ Len(built) >= 1 => built[1].target = PRIMARY_MODEL
        /\ Len(built) = 2 => ~built[1].ok /\ built[2].target = SECONDARY_MODEL
        /\ (Len(built) >= 1 /\ ~built[1].ok /\ pc[c] # "model_secondary") => Len(built) = 2
        /\ \A i \in 1..Len(sent) :
              /\ Len(built) >= 1
              /\ built[Len(built)].ok
              /\ sent[i].target = built[Len(built)].target
        /\ (Len(built) = 2 /\ ~built[2].ok) => Len(sent) = 0
        /\ (Len(built) >= 1 /\ built[1].ok) => Len(built) = 1

\* C4: the primary model is constructed first, the secondary if and only if
\* the primary's construction failed, generate_content runs only on the model
\* constructed; a failed generation on the primary never reaches the
\* secondary, and that case and the case of both constructions failing each
\* end in a generation-error text.
C4_FallbackOrder ==
    \A c \in Callers :
        /\ SelectionOrder(c)
        /\ (/\ ret[c].kind = "return"
            /\ FailedIn(c, {"GenerativeModel", "generate_content"})) =>
                IsGenerationError(ret[c].value, frame[c].exc)

\* generate_content runs at most once, exactly once when a model was
\* constructed, and with the assembled prompt as its argument.
OneGeneration(c) ==
    LET sent == EventsOf(c, "generate_content")
    IN  /\ Len(sent) <= 1
        /\ (Ended(c) /\ frame[c].model # Unbound) => Len(sent) = 1
        /\ \A i \in 1..Len(sent) :
              /\ sent[i].arg = frame[c].prompt
              /\ sent[i].arg =
                    PyStr(PromptText(frame[c].user_gender, frame[c].user_age,
                                     frame[c].user_height, frame[c].user_weight,
                                     frame[c].user_fitness_level, frame[c].detailed_goal,
                                     frame[c].training_history_summary))

\* C5 (as stated): no retry - generate_content is called at most once, exactly
\* once when the key is present, the profile was read and a model was
\* constructed, with the prompt as its argument; and when generate_content
\* succeeds the call's result is the provider's response text.
C5_AsStated ==
    \A c \in Callers :
        /\ OneGeneration(c)
        /\ (/\ ret[c].kind = "return"
            /\ \E i \in 1..Len(calls[c]) :
                  calls[c][i].op = "generate_content" /\ calls[c][i].ok) =>
                \E i \in 1..Len(calls[c]) :
                    /\ calls[c][i].op = "text"
                    /\ calls[c][i].ok
                    /\ calls[c][i].arg = ret[c].value

\* C5 (amended): as C5, but the result is the provider's response text when
\* generate_content succeeds and reading response.text succeeds too.
C5_NoRetry ==
    \A c \in Callers :
        /\ OneGeneration(c)
        /\ (/\ ret[c].kind = "return"
            /\ \E i \in 1..Len(calls[c]) :
                  calls[c][i].op = "generate_content" /\ calls[c][i].ok
            /\ \E i \in 1..Len(calls[c]) :
                  calls[c][i].op = "text" /\ calls[c][i].ok) =>
                /\ LastCall(c).op = "text"
                /\ ret[c].value = LastCall(c).arg

\* C5 witness: a call whose single generate_content succeeded and whose
\* result is the text the provider gave.
C5_Witness ==
    \E c \in Callers :
        /\ pc[c] = "done"
        /\ Len(EventsOf(c, "generate_content")) = 1
        /\ LastCall(c).op = "text" /\ LastCall(c).ok
        /\ ret[c] = Returned("## Week 1: Upper/Lower split")

\* What the profile holds for an attribute when it is present (not None).
Present(v) == v # PyNone
StoredGender(p) == IF Present(p.gender) THEN p.gender_display ELSE PyStr("Not specified")
StoredAge(p) == IF Present(p.age) THEN p.age ELSE PyInt(25)
StoredHeight(p) == IF Present(p.height_cm) THEN p.height_cm ELSE PyInt(170)
StoredWeight(p) == IF Present(p.weight_kg) THEN p.weight_kg ELSE PyInt(70)
StoredLevel(p) ==
    IF Present(p.fitness_level) THEN p.fitness_level_display ELSE PyStr("Beginner")
StoredGoal(p) ==
    IF Present(p.primary_goal_choice) THEN p.primary_goal_choice_display
    ELSE PyStr("General Fitness")

\* C6: each of the six attributes goes into the prompt as stored whenever it
\* is present (not None) - age 0, height 0, weight 0 included - and as the
\* fixed default exactly when it is absent.
C6_StoredValueWhenPresent ==
    \A c \in Callers :
        frame[c].prompt # Unbound =>
            LET p == frame[c].user_profile
            IN  /\ frame[c].user_primary_goal_choice = StoredGoal(p)
                /\ frame[c].prompt =
                      PyStr(PromptText(StoredGender(p), StoredAge(p), StoredHeight(p),
                                       StoredWeight(p), StoredLevel(p),
                                       frame[c].detailed_goal,
                                       frame[c].training_history_summary))

\* The goal sentence by the rule of the claim: case-sensitive substrings,
\* "Muscle"/"Gain" before "Fat"/"Loss".
GoalSentence(g) ==
    IF HasSub(g, "Muscle") \/ HasSub(g, "Gain") THEN GOAL_MUSCLE
    ELSE IF HasSub(g, "Fat") \/ HasSub(g, "Loss") THEN GOAL_FAT
    ELSE GOAL_GENERIC

GoalLabel(p) ==
    IF p.primary_goal_choice \in {PyNone, PyStr("")} THEN "General Fitness"
    ELSE p.primary_goal_choice_display[2]

\* C7: the Primary Goal line of the prompt holds the hypertrophy sentence if
\* the goal label contains "Muscle" or "Gain", else the fat-loss sentence if it
\* contains "Fat" or "Loss", else the generic sentence; an absent goal gives
\* the generic sentence; the label itself is nowhere in the prompt.
C7_GoalClassification ==
    \A c \in Callers :
        /\ frame[c].detailed_goal # Unbound =>
              /\ frame[c].detailed_goal =
                    PyStr(GoalSentence(GoalLabel(frame[c].user_profile)))
              /\ frame[c].user_profile.primary_goal_choice = PyNone =>
                    frame[c].detailed_goal = PyStr("Improve overall fitness and health.")
              /\ GoalLabel(frame[c].user_profile) \in {"muscle gain", "fat loss", "muscle fat"} =>
                    frame[c].detailed_goal = PyStr("Improve overall fitness and health.")
        /\ frame[c].prompt # Unbound =>
              frame[c].prompt =
                  PyStr(PromptText(frame[c].user_gender, frame[c].user_age,
                                   frame[c].user_height, frame[c].user_weight,
                                   frame[c].user_fitness_level,
                                   PyStr(GoalSentence(GoalLabel(frame[c].user_profile))),
                                   frame[c].training_history_summary))

\* C7 witness: the label "Fat Muscle" (both words, "Fat" first) went into the
\* prompt as the hypertrophy sentence.
C7_Witness ==
    \E c \in Callers :
        /\ frame[c].prompt # Unbound
        /\ frame[c].user_profile.primary_goal_choice_display = PyStr("Fat Muscle")
        /\ frame[c].detailed_goal = PyStr(GOAL_MUSCLE)

\* C8: an empty or missing history (omitted, None, "") puts the fixed
\* two-line default into the training-history block; any non-empty history,
\* one of blanks included, goes in unmodified.
C8_HistoryBlock ==
    \A c \in Callers :
        frame[c].prompt # Unbound =>
            LET h == request[c].history
                block == IF h \in {Omitted, PyNone, PyStr("")}
                         THEN "\n* **Workout Frequency:** Based on your fitness level, we recommend starting with 3-4 times per week.\n* **Workout Types:** A balanced mix of strength training and cardio.\n"
                         ELSE h[2]
            IN  frame[c].prompt =
                    PyStr(TEMPLATE_0 \o Format(frame[c].user_gender)
                          \o TEMPLATE_1 \o Format(frame[c].user_age)
                          \o TEMPLATE_2 \o Format(frame[c].user_height)
                          \o TEMPLATE_3 \o Format(frame[c].user_weight)
                          \o TEMPLATE_4 \o Format(frame[c].user_fitness_level)
                          \o TEMPLATE_5 \o Format(frame[c].detailed_goal)
                          \o TEMPLATE_6 \o block \o TEMPLATE_7)

\* C8 witness: a prompt was built from a history of one blank.
C8_Witness ==
    \E c \in Callers :
        /\ frame[c].prompt # Unbound
        /\ request[c].history = PyStr(" ")

\* C9: two calls at once share nothing: the credential each call's
\* generate_content runs with is the key that call read itself.
C9_OwnCredential ==
    \A c \in Callers :
        \A i \in 1..Len(calls[c]) :
            calls[c][i].op = "generate_content" => calls[c][i].cred = frame[c].api_key

\* The four attributes the view wants set.
ProfileComplete(p) ==
    /\ p.gender \notin {PyNone, PyStr("")}
    /\ p.age \notin {PyNone, PyInt(0)}
    /\ p.height_cm \notin {PyNone, PyInt(0)}
    /\ p.weight_kg \notin {PyNone, PyInt(0)}

\* C10: a request to the ai_planner view calls the generator at most once,
\* and only for a POST with gender, age, height and weight set; an incomplete
\* profile gets the "complete your profile" error with a null result for GET
\* and POST alike; result and error are never both set; what the generator
\* returns is delivered as result, never as error.
C10_ViewGate ==
    \A c \in Callers :
        request[c].entry = "view" =>
            /\ Len(EventsOf(c, "call")) <= 1
            /\ Happened(c, "call") =>
                  request[c].method = "POST" /\ ProfileComplete(request[c].profile)
            /\ ~ProfileComplete(request[c].profile) =>
                  /\ pc[c] = "done"
                  /\ request[c].context =
                        [result |-> PyNone, error |-> PyStr(PROFILE_INCOMPLETE)]
            /\ pc[c] = "done" =>
                  /\ request[c].context.result = PyNone
                        \/ request[c].context.error = PyNone
                  /\ ret[c].kind = "return" =>
                        /\ request[c].context.result = ret[c].value
                        /\ request[c].context.error = PyNone

\* C10 witness: a POST with a complete profile was answered with the
\* generator's "Configuration Error" text as result.
C10_Witness ==
    \E c \in Callers :
        /\ request[c].entry = "view"
        /\ pc[c] = "done"
        /\ IsConfigurationError(request[c].context.result)
        /\ request[c].context.error = PyNone

====
